---- MODULE Spec2Model ----
(***************************************************************************)
(* Face-recognition attendance system (src/main.py): the matcher, the      *)
(* attendance tracker of the frame loop and the CSV attendance store.      *)
(*                                                                         *)
(* Time is an integer count of clock ticks.  A timestamp written by        *)
(* isoformat(timespec="seconds") is the tick count truncated to whole      *)
(* seconds, a date is the tick count truncated to whole days.  Dates and   *)
(* timestamps are kept as these numbers, where the program keeps their ISO *)
(* strings: the strings are only ever compared for equality with strings   *)
(* produced the same way.                                                  *)
(***************************************************************************)
EXTENDS Integers, Sequences, FiniteSets, TLC

VARIABLES
    pc,               \* position of the process in main()
    now,              \* the wall clock, in ticks
    file,             \* the attendance file on disk
    attendance_today, \* main's dict name -> {date, first_seen, last_seen}, in insertion order
    rows,             \* write_attendance_snapshot's list `rows`, while a write is in flight
    known_encodings,  \* the gallery's descriptors
    known_labels,     \* the gallery's labels, aligned with known_encodings
    tolerance,        \* args.tolerance
    face_encodings,   \* the descriptors of the faces of the current frame
    face_names,       \* the names the matching step gave them
    today,            \* main's `today`: the date the tracker update of the frame read
    durable,          \* history: the file as the last completed write left it
    crashes,          \* history: how many times the process was stopped and restarted
    known_dir,        \* the directory of reference images (args.known_dir)
    peer,             \* a second process on the same file: its pc, snapshot and `rows`
    ret               \* main's `ret`: whether the last video.read() gave a frame

vars == <<pc, now, file, attendance_today, rows, known_encodings, known_labels,
          tolerance, face_encodings, face_names, today, durable, crashes,
         known_dir, peer, ret>>

(***************************************************************************)
(* Bounds of the model.                                                    *)
(***************************************************************************)
TicksPerSec == 2
SecPerDay == 2
MaxDay == 2
MaxFaces == 2
MaxInitRows == 1
MaxStoreRows == 2
MaxFileRows == 3
MaxCoord == 1
MaxGallery == 2
MaxTol == 1
MaxCrashes == 1
MaxTextLines == 2
MaxImages == 2
MaxLocations == 2

TicksPerDay == TicksPerSec * SecPerDay
StartDay == MaxDay - 1
MaxNow == (MaxDay + 1) * TicksPerDay - 1

Names == {"alice", "bob"}
Unknown == "Unknown"

\* now.date().isoformat()
DateOf(t) == t \div TicksPerDay
\* now.isoformat(timespec="seconds"): sub-second ticks are dropped
IsoSeconds(t) == t \div TicksPerSec
\* the calendar date of a second-resolution timestamp
DateOfSeconds(s) == s \div SecPerDay

\* A first_seen that `not first_seen` takes as absent (None or the empty string).
Missing == -1

Row(d, n, f, l) == [date |-> d, name |-> n, first_seen |-> f, last_seen |-> l]

SeqsUpTo(S, n) == UNION {[1..k -> S] : k \in 0..n}

(***************************************************************************)
(* The matching step (main, lines 167-176).                                *)
(***************************************************************************)
Descriptors == (0..MaxCoord) \X (0..MaxCoord)

\* face_distance: the Euclidean norm of the difference, kept squared
DistSq(a, b) == (a[1] - b[1]) * (a[1] - b[1]) + (a[2] - b[2]) * (a[2] - b[2])

\* face_recognition.face_distance(known_encodings, face_encoding)
face_distance(encs, q) == [i \in 1..Len(encs) |-> DistSq(encs[i], q)]

\* d <= tolerance on the squared distance
WithinTolerance(dsq, tol) == tol >= 0 /\ dsq <= tol * tol

\* face_recognition.compare_faces: list(face_distance(...) <= tolerance)
compare_faces(encs, q, tol) ==
    [i \in 1..Len(encs) |-> WithinTolerance(DistSq(encs[i], q), tol)]

\* np.argmin scans left to right and keeps the first smallest element
RECURSIVE ArgMinFrom(_, _, _)
ArgMinFrom(dist, i, best) ==
    IF i > Len(dist) THEN best
    ELSE ArgMinFrom(dist, i + 1, IF dist[i] < dist[best] THEN i ELSE best)

ArgMinLast(dist) ==
    CHOOSE i \in 1..Len(dist) :
        /\ \A j \in 1..Len(dist) : dist[j] >= dist[i]
        /\ \A j \in 1..Len(dist) : dist[j] = dist[i] => j <= i

\* int(np.argmin(distances)) if len(distances) else -1, with indices from 1 (0: none)
ArgMin(dist) == IF Len(dist) = 0 THEN 0 ELSE ArgMinFrom(dist, 2, 1)

\* the body of `for face_encoding in face_encodings` up to face_names.append(name)
MatchFace(encs, labels, q, tol) ==
    IF Len(encs) = 0 THEN Unknown
    ELSE LET matches == compare_faces(encs, q, tol)
             distances == face_distance(encs, q)
             best_match_index == ArgMin(distances)
         IN  IF best_match_index >= 1 /\ matches[best_match_index]
             THEN labels[best_match_index]
             ELSE Unknown

MatchAll(encs, labels, qs, tol) ==
    [i \in 1..Len(qs) |-> MatchFace(encs, labels, qs[i], tol)]

(***************************************************************************)
(* The attendance tracker (main, lines 178-192).                           *)
(***************************************************************************)
\* position of `name` among the keys of the dict, 0 when it is no key
IndexOf(snap, name) ==
    IF \E i \in 1..Len(snap) : snap[i].name = name
    THEN CHOOSE i \in 1..Len(snap) : snap[i].name = name
    ELSE 0

HasKey(snap, name) == IndexOf(snap, name) # 0

UpdateOneOverwrite(snap, name, day, ts) ==
    IF name = Unknown THEN snap
    ELSE LET i == IndexOf(snap, name) IN
         IF i = 0 THEN Append(snap, Row(day, name, ts, ts))
         ELSE [snap EXCEPT ![i] = Row(day, name, ts, ts)]

UpdateOneNoSkip(snap, name, day, ts) ==
    LET i == IndexOf(snap, name) IN
    IF i = 0 THEN Append(snap, Row(day, name, ts, ts))
    ELSE IF snap[i].first_seen = Missing
         THEN [snap EXCEPT ![i] = Row(day, name, ts, ts)]
         ELSE [snap EXCEPT ![i].last_seen = ts]

UpdateOneDateScoped(snap, name, day, ts) ==
    LET fresh == SelectSeq(snap, LAMBDA e : e.date = day)
        i == IndexOf(fresh, name)
    IN  IF name = Unknown THEN fresh
        ELSE IF i = 0 THEN Append(fresh, Row(day, name, ts, ts))
        ELSE [fresh EXCEPT ![i].last_seen = ts]

UpdateOneRefreshDate(snap, name, day, ts) ==
    IF name = Unknown THEN snap
    ELSE LET i == IndexOf(snap, name) IN
         IF i = 0 THEN Append(snap, Row(day, name, ts, ts))
         ELSE [snap EXCEPT ![i].date = day, ![i].last_seen = ts]

\* one pass of `for name in face_names` (lines 182-192)
UpdateOne(snap, name, day, ts) ==
    IF name = Unknown THEN snap
    ELSE LET i == IndexOf(snap, name) IN
         IF i = 0 THEN Append(snap, Row(day, name, ts, ts))
         ELSE IF snap[i].first_seen = Missing
              THEN [snap EXCEPT ![i] = Row(day, name, ts, ts)]
              ELSE [snap EXCEPT ![i].last_seen = ts]

\* the loop `for name in face_names` (lines 181-192)
RECURSIVE UpdateAll(_, _, _, _)
UpdateAll(snap, names, day, ts) ==
    IF names = <<>> THEN snap
    ELSE UpdateAll(UpdateOne(snap, Head(names), day, ts), Tail(names), day, ts)

(***************************************************************************)
(* The attendance store (lines 78-124).  A file is absent, or zero bytes   *)
(* long (header = FALSE), or the header row followed by data rows.         *)
(***************************************************************************)
NoFile == [exists |-> FALSE, header |-> FALSE, rows |-> <<>>]
EmptyFile == [exists |-> TRUE, header |-> FALSE, rows |-> <<>>]
FileOf(rs) == [exists |-> TRUE, header |-> TRUE, rows |-> rs]

ensure_attendance_header_rewrite(f) == FileOf(<<>>)

\* ensure_attendance_header (lines 78-83)
ensure_attendance_header(f) == IF ~f.exists THEN FileOf(<<>>) ELSE f

\* attendance[name] = {...}: a new key is appended, an old key keeps its place
Put(att, r) ==
    LET i == IndexOf(att, r.name) IN
    IF i = 0 THEN Append(att, r) ELSE [att EXCEPT ![i] = r]

RECURSIVE ReadRows(_, _, _)
ReadRows(rs, day, att) ==
    IF rs = <<>> THEN att
    ELSE ReadRows(Tail(rs), day,
                  IF Head(rs).date = day
                  THEN Put(att, Row(Head(rs).date, Head(rs).name,
                                    Head(rs).first_seen, Head(rs).last_seen))
                  ELSE att)

\* read_today_attendance (lines 86-101)
read_today_attendance(f, day) ==
    IF ~f.exists THEN <<>> ELSE ReadRows(f.rows, day, <<>>)

\* SelectSeq keeps the order of the rows
RowsNotDated(rs, day) == SelectSeq(rs, LAMBDA r : r.date # day)
RowsDated(rs, day) == SelectSeq(rs, LAMBDA r : r.date = day)

\* the rows appended from the snapshot (lines 114-120)
SnapshotRows(snap) ==
    [i \in 1..Len(snap) |->
        Row(snap[i].date, snap[i].name, snap[i].first_seen, snap[i].last_seen)]

PendingRowsAppendOnly(f, snap, day) ==
    (IF f.exists THEN f.rows ELSE <<>>) \o SnapshotRows(snap)

\* write_attendance_snapshot's `rows` before the file is reopened (lines 106-120)
PendingRows(f, snap, day) ==
    (IF f.exists THEN RowsNotDated(f.rows, day) ELSE <<>>) \o SnapshotRows(snap)

(***************************************************************************)
(* The gallery loader.  A reference image is its label (the file stem or   *)
(* the parent folder, extract_label_from_path), the number of faces        *)
(* detection finds in it and the descriptors encoding yields for them.     *)
(***************************************************************************)
Image(label, locations, encs) ==
    [label |-> label, face_locations |-> locations, face_encs |-> encs]

NoDir == [exists |-> FALSE, images |-> <<>>]
DirOf(images) == [exists |-> TRUE, images |-> images]

RECURSIVE LoadImagesLastFace(_, _)
LoadImagesLastFace(images, acc) ==
    IF images = <<>> THEN acc
    ELSE LET img == Head(images) IN
         LoadImagesLastFace(Tail(images),
                    IF img.face_locations = 0 THEN acc
                    ELSE IF Len(img.face_encs) = 0 THEN acc
                    ELSE [encodings |-> Append(acc.encodings,
                                               img.face_encs[Len(img.face_encs)]),
                          labels |-> Append(acc.labels, img.label)])

\* the loop over the images (lines 61-73), the two lists appended to in step
RECURSIVE LoadImages(_, _)
LoadImages(images, acc) ==
    IF images = <<>> THEN acc
    ELSE LET img == Head(images) IN
         LoadImages(Tail(images),
                    IF img.face_locations = 0 THEN acc
                    ELSE IF Len(img.face_encs) = 0 THEN acc
                    ELSE [encodings |-> Append(acc.encodings, img.face_encs[1]),
                          labels |-> Append(acc.labels, img.label)])

NoFaces == [encodings |-> <<>>, labels |-> <<>>]

load_known_faces_keep_faceless(dir) ==
    IF ~dir.exists THEN NoFaces
    ELSE [encodings |-> [i \in 1..Len(dir.images) |->
                            IF Len(dir.images[i].face_encs) = 0 THEN <<0, 0>>
                            ELSE dir.images[i].face_encs[1]],
          labels |-> [i \in 1..Len(dir.images) |-> dir.images[i].label]]

\* load_known_faces (lines 48-75)
load_known_faces(dir) ==
    IF ~dir.exists THEN NoFaces
    ELSE IF Len(dir.images) = 0 THEN NoFaces
    ELSE LoadImages(dir.images, NoFaces)

\* the directory after the call: created when it was missing (line 52)
MkDir(dir) == IF ~dir.exists THEN DirOf(<<>>) ELSE dir

(***************************************************************************)
(* The state before main() runs: a clock on the start day, a gallery, and  *)
(* an attendance file left by earlier runs (absent, or the header and rows *)
(* with at most one row per date and name).                                *)
(***************************************************************************)
UniqueKeys(rs) ==
    \A i, j \in 1..Len(rs) :
        (rs[i].date = rs[j].date /\ rs[i].name = rs[j].name) => i = j

\* rows earlier runs can have left by second s of day d: first seen at the start
\* of the day before or of the day d, last seen then or a second later
HistoryRows(d, s) ==
    {r \in {Row(dd, n, dd * SecPerDay, dd * SecPerDay + k) :
                dd \in {d - 1, d}, n \in Names, k \in {0, 1}} :
        r.last_seen <= s}

InitFiles(t) ==
    {NoFile} \cup
    {FileOf(rs) : rs \in {x \in SeqsUpTo(HistoryRows(DateOf(t), IsoSeconds(t)), MaxInitRows) :
                              UniqueKeys(x)}}

Entry(enc, label) == [enc |-> enc, label |-> label]

\* the galleries of the runs: none, one identity, two identities, one identity twice
RunGalleries ==
    { <<>>,
      <<Entry(<<0, 0>>, "alice")>>,
      <<Entry(<<0, 0>>, "alice"), Entry(<<MaxCoord, MaxCoord>>, "bob")>> }

\* the directories of the runs: missing, empty, one image without a face, and
\* one image of one face for each entry of a gallery above
RunDirs ==
    {NoDir, DirOf(<<>>), DirOf(<<Image("alice", 0, <<>>)>>)} \cup
    {DirOf([i \in 1..Len(g) |-> Image(g[i].label, 1, <<g[i].enc>>)]) :
        g \in RunGalleries \ {<<>>}}

\* no second process
NoPeer == [pc |-> "none", attendance_today |-> <<>>, rows |-> <<>>]

\* the faces the camera shows: the two reference faces and one between them
FrameDescriptors == {<<0, 0>>, <<0, MaxCoord>>, <<MaxCoord, MaxCoord>>}

EncodingsOf(g) == [i \in 1..Len(g) |-> g[i].enc]
LabelsOf(g) == [i \in 1..Len(g) |-> g[i].label]

Init ==
    /\ pc = "load"
    /\ now = StartDay * TicksPerDay
    /\ file \in InitFiles(now)
    /\ attendance_today = <<>>
    /\ rows = <<>>
    /\ known_dir \in RunDirs
    /\ known_encodings = <<>>
    /\ known_labels = <<>>
    /\ peer = NoPeer
    /\ ret = TRUE
    /\ tolerance = MaxTol
    /\ face_encodings = <<>>
    /\ face_names = <<>>
    /\ today = DateOf(now)
    /\ durable = [valid |-> FALSE, date |-> DateOf(now), rows |-> file.rows]
    /\ crashes = 0

(***************************************************************************)
(* The steps of main().                                                    *)
(***************************************************************************)
\* known_encodings, known_labels = load_known_faces(known_dir) (line 134)
LoadGallery ==
    /\ pc = "load"
    /\ pc' = "start"
    /\ known_encodings' = load_known_faces(known_dir).encodings
    /\ known_labels' = load_known_faces(known_dir).labels
    /\ known_dir' = MkDir(known_dir)
    /\ UNCHANGED <<now, file, attendance_today, rows, tolerance, face_encodings,
                   face_names, durable, crashes, today, peer, ret>>

\* time passes before a step that reads the clock (lines 94, 111 and 179); at the
\* other positions nothing reads it before the next of these
Tick ==
    /\ now < MaxNow
    /\ pc \in {"start", "loop", "persist", "store"}
    /\ now' = now + 1
    /\ UNCHANGED <<pc, file, attendance_today, rows, known_encodings, known_labels,
                   tolerance, face_encodings, face_names, durable, crashes,
                   today,
                   known_dir, peer, ret>>

\* lines 137-142: the header is ensured, the snapshot is seeded, the camera opened
Startup ==
    /\ pc = "start"
    /\ file' = ensure_attendance_header(file)
    /\ attendance_today' = read_today_attendance(file', DateOf(now))
    /\ \E opened \in BOOLEAN : pc' = IF opened THEN "loop" ELSE "aborted"
    /\ UNCHANGED <<now, rows, known_encodings, known_labels, tolerance, face_encodings,
                   face_names, durable, crashes, today,
                   known_dir, peer, ret>>

\* lines 150-192: a frame is read, its faces are matched, the tracker is updated;
\* the descriptors are not read after the matching and are not kept
Frame ==
    /\ pc = "loop"
    /\ \E encs \in SeqsUpTo(FrameDescriptors, MaxFaces) :
        /\ face_names' = MatchAll(known_encodings, known_labels, encs, tolerance)
        /\ attendance_today' =
               UpdateAll(attendance_today, face_names', DateOf(now), IsoSeconds(now))
    /\ today' = DateOf(now)
    /\ ret' = TRUE
    /\ pc' = "persist"
    /\ UNCHANGED <<now, file, rows, known_encodings, known_labels, tolerance,
                   face_encodings, durable, crashes,
                   known_dir, peer>>

FrameFailNoBreak ==
    /\ pc = "loop"
    /\ ret' = FALSE
    /\ pc' = "persist"
    /\ UNCHANGED <<now, file, attendance_today, rows, known_encodings, known_labels,
                   tolerance, face_encodings, face_names, durable, crashes,
                   today, known_dir, peer>>

\* lines 150-153: a failed read leaves the loop
FrameFail ==
    /\ pc = "loop"
    /\ ret' = FALSE
    /\ pc' = "stopping"
    /\ UNCHANGED <<now, file, attendance_today, rows, known_encodings, known_labels,
                   tolerance, face_encodings, face_names, durable, crashes,
                   today, known_dir, peer>>

\* what a file holds after `mine` was written from its start over `theirs`, the
\* rows another writer put there since this writer truncated the file: the
\* rows of `theirs` beyond the length of `mine` stay (rows taken as of one width)
Overlay(mine, theirs) == mine \o SubSeq(theirs, Len(mine) + 1, Len(theirs))

WriteOpenLocked ==
    /\ pc = "persist"
    /\ peer.pc # "writing"
    /\ LET pending == PendingRows(file, attendance_today, DateOf(now)) IN
        /\ Len(pending) <= MaxFileRows
        /\ rows' = pending
    /\ file' = EmptyFile
    /\ face_names' = <<>>
    /\ pc' = "writing"
    /\ UNCHANGED <<now, attendance_today, known_encodings, known_labels, tolerance,
                   face_encodings, durable, crashes, today,
                   known_dir, peer, ret>>

\* lines 106-121: the rows are collected and the file is reopened for writing,
\* which truncates it; the frame's names are not read again after the drawing
WriteOpen ==
    /\ pc = "persist"
    /\ LET pending == PendingRows(file, attendance_today, DateOf(now)) IN
        /\ Len(pending) <= MaxFileRows
        /\ rows' = pending
    /\ file' = EmptyFile
    /\ face_names' = <<>>
    /\ pc' = "writing"
    /\ UNCHANGED <<now, attendance_today, known_encodings, known_labels, tolerance,
                   face_encodings, durable, crashes, today,
                   known_dir, peer, ret>>

\* lines 122-124: the header and the rows are written and the file is closed
WriteClose ==
    /\ pc = "writing"
    /\ file' = FileOf(Overlay(rows, file.rows))
    /\ durable' = [valid |-> TRUE, date |-> DateOf(now), rows |-> file'.rows]
    /\ rows' = <<>>
    /\ pc' = "poll"
    /\ UNCHANGED <<now, attendance_today, known_encodings, known_labels, tolerance,
                   face_encodings, face_names, crashes, today,
                   known_dir, peer, ret>>

\* lines 211-213: the quit key leaves the loop, any other key or none goes on
PollKey ==
    /\ pc = "poll"
    /\ \E quit \in BOOLEAN : pc' = IF quit THEN "stopping" ELSE "loop"
    /\ UNCHANGED <<now, file, attendance_today, rows, known_encodings, known_labels,
                   tolerance, face_encodings, face_names, durable, crashes,
                   today,
                   known_dir, peer, ret>>

\* lines 215-216: after the loop the device is released
Release ==
    /\ pc = "stopping"
    /\ pc' = "released"
    /\ UNCHANGED <<now, file, attendance_today, rows, known_encodings, known_labels,
                   tolerance, face_encodings, face_names, durable, crashes,
                   today, known_dir, peer, ret>>

Next ==
    \/ LoadGallery \/ Tick \/ Startup \/ Frame \/ FrameFail
    \/ WriteOpen \/ WriteClose \/ PollKey \/ Release

Spec == Init /\ [][Next]_vars

\* the process keeps running: once the loop is left, lines 215-216 are executed
\* (a first run, with no attendance file yet)
InitLive == Init /\ file = NoFile

SpecLive == InitLive /\ [][Next]_vars /\ WF_vars(Release)

(***************************************************************************)
(* Stopping and restarting the process.  The process can be stopped at any *)
(* point of the loop; its memory is lost and the file stays as it is on    *)
(* disk, which between the reopening and the close of a write is the       *)
(* truncated file.  The next run starts again from main().                 *)
(***************************************************************************)
Crash ==
    /\ pc \in {"loop", "persist", "writing", "poll"}
    /\ crashes < MaxCrashes
    /\ crashes' = crashes + 1
    /\ pc' = "start"
    /\ attendance_today' = <<>>
    /\ rows' = <<>>
    /\ face_names' = <<>>
    /\ UNCHANGED <<now, file, known_encodings, known_labels, tolerance, face_encodings,
                   durable, today,
                   known_dir, peer, ret>>

NextCrash == Next \/ Crash

SpecCrash == Init /\ [][NextCrash]_vars

(***************************************************************************)
(* The matching step on its own: every gallery, tolerance and query.       *)
(***************************************************************************)
Galleries == SeqsUpTo({Entry(e, l) : e \in Descriptors, l \in Names}, MaxGallery)

InitMatch ==
    /\ pc = "match"
    /\ now = 0
    /\ file = NoFile
    /\ attendance_today = <<>>
    /\ rows = <<>>
    /\ \E g \in Galleries :
        /\ known_encodings = EncodingsOf(g)
        /\ known_labels = LabelsOf(g)
    /\ tolerance \in 0..MaxTol
    /\ face_encodings = <<>>
    /\ face_names = <<>>
    /\ today = DateOf(now)
    /\ durable = [valid |-> FALSE, date |-> 0, rows |-> <<>>]
    /\ crashes = 0
    /\ known_dir = NoDir
    /\ peer = NoPeer
    /\ ret = TRUE

\* lines 167-176 for a frame with one face
MatchFrame ==
    /\ pc = "match"
    /\ \E q \in Descriptors :
        /\ face_encodings' = <<q>>
        /\ face_names' = MatchAll(known_encodings, known_labels, <<q>>, tolerance)
    /\ UNCHANGED <<pc, now, file, attendance_today, rows, known_encodings, known_labels,
                   tolerance, durable, crashes, today,
                   known_dir, peer, ret>>

SpecMatch == InitMatch /\ [][MatchFrame]_vars

(***************************************************************************)
(* The store on its own: write_attendance_snapshot called again and again  *)
(* with one snapshot on any file content, the date advancing in between.   *)
(***************************************************************************)
\* rows of the day d and of the day before it
StoreRows(d) == HistoryRows(d, d * SecPerDay + 1)

UniqueNames(snap) ==
    \A i, j \in 1..Len(snap) : snap[i].name = snap[j].name => i = j

StoreFiles(d) ==
    {NoFile, EmptyFile} \cup {FileOf(rs) : rs \in SeqsUpTo(StoreRows(d), MaxStoreRows)}

\* a dict has one entry per key
StoreSnapshots(d) == {x \in SeqsUpTo(StoreRows(d), Cardinality(Names)) : UniqueNames(x)}

InitStore ==
    /\ pc = "store"
    /\ now = StartDay * TicksPerDay
    /\ file \in StoreFiles(StartDay)
    /\ attendance_today \in StoreSnapshots(StartDay)
    /\ rows = <<>>
    /\ known_encodings = <<>>
    /\ known_labels = <<>>
    /\ tolerance = 0
    /\ face_encodings = <<>>
    /\ face_names = <<>>
    /\ today = DateOf(now)
    /\ durable = [valid |-> FALSE, date |-> DateOf(now), rows |-> file.rows]
    /\ crashes = 0
    /\ known_dir = NoDir
    /\ peer = NoPeer
    /\ ret = TRUE

\* one whole call of write_attendance_snapshot (lines 104-124)
StoreWrite ==
    /\ pc = "store"
    /\ LET pending == PendingRows(file, attendance_today, DateOf(now)) IN
        /\ Len(pending) <= MaxFileRows
        /\ file' = FileOf(pending)
        /\ durable' = [valid |-> TRUE, date |-> DateOf(now), rows |-> pending]
    /\ UNCHANGED <<pc, now, attendance_today, rows, known_encodings, known_labels,
                   tolerance, face_encodings, face_names, crashes, today,
                   known_dir, peer, ret>>

NextStore == Tick \/ StoreWrite

SpecStore == InitStore /\ [][NextStore]_vars

(***************************************************************************)
(* Two processes on one attendance file.  The second process runs the same *)
(* main() on the same gallery; its position, snapshot and `rows` are the   *)
(* fields of `peer`.  The clock stands still.                              *)
(***************************************************************************)
PeerStartup ==
    /\ peer.pc = "start"
    /\ file' = ensure_attendance_header(file)
    /\ \E opened \in BOOLEAN :
        peer' = [peer EXCEPT !.pc = IF opened THEN "loop" ELSE "aborted",
                             !.attendance_today =
                                 read_today_attendance(file', DateOf(now))]
    /\ UNCHANGED <<pc, now, attendance_today, rows, known_encodings, known_labels,
                   tolerance, face_encodings, face_names, durable, crashes, today,
                   known_dir, ret>>

PeerFrame ==
    /\ peer.pc = "loop"
    /\ \E encs \in SeqsUpTo(FrameDescriptors, MaxFaces) :
        peer' = [peer EXCEPT !.pc = "persist",
                             !.attendance_today =
                                 UpdateAll(peer.attendance_today,
                                           MatchAll(known_encodings, known_labels,
                                                    encs, tolerance),
                                           DateOf(now), IsoSeconds(now))]
    /\ UNCHANGED <<pc, now, file, attendance_today, rows, known_encodings,
                   known_labels, tolerance, face_encodings, face_names, durable,
                   crashes, today, known_dir, ret>>

PeerFrameFail ==
    /\ peer.pc = "loop"
    /\ peer' = [peer EXCEPT !.pc = "stopping"]
    /\ UNCHANGED <<pc, now, file, attendance_today, rows, known_encodings,
                   known_labels, tolerance, face_encodings, face_names, durable,
                   crashes, today, known_dir, ret>>

PeerWriteOpen ==
    /\ peer.pc = "persist"
    /\ LET pending == PendingRows(file, peer.attendance_today, DateOf(now)) IN
        /\ Len(pending) <= MaxFileRows
        /\ peer' = [peer EXCEPT !.pc = "writing", !.rows = pending]
    /\ file' = EmptyFile
    /\ UNCHANGED <<pc, now, attendance_today, rows, known_encodings, known_labels,
                   tolerance, face_encodings, face_names, durable, crashes, today,
                   known_dir, ret>>

PeerWriteClose ==
    /\ peer.pc = "writing"
    /\ file' = FileOf(Overlay(peer.rows, file.rows))
    /\ durable' = [valid |-> TRUE, date |-> DateOf(now), rows |-> file'.rows]
    /\ peer' = [peer EXCEPT !.pc = "poll", !.rows = <<>>]
    /\ UNCHANGED <<pc, now, attendance_today, rows, known_encodings, known_labels,
                   tolerance, face_encodings, face_names, crashes, today,
                   known_dir, ret>>

PeerPollKey ==
    /\ peer.pc = "poll"
    /\ \E quit \in BOOLEAN :
        peer' = [peer EXCEPT !.pc = IF quit THEN "stopping" ELSE "loop"]
    /\ UNCHANGED <<pc, now, file, attendance_today, rows, known_encodings,
                   known_labels, tolerance, face_encodings, face_names, durable,
                   crashes, today, known_dir, ret>>

PeerRelease ==
    /\ peer.pc = "stopping"
    /\ peer' = [peer EXCEPT !.pc = "released"]
    /\ UNCHANGED <<pc, now, file, attendance_today, rows, known_encodings,
                   known_labels, tolerance, face_encodings, face_names, durable,
                   crashes, today, known_dir, ret>>

\* both processes were started on the same directory and the same file
InitTwo ==
    /\ Init
    /\ known_dir # NoDir /\ Len(known_dir.images) = Cardinality(Names)

StartPeer ==
    /\ peer.pc = "none"
    /\ pc # "load"
    /\ peer' = [peer EXCEPT !.pc = "start"]
    /\ UNCHANGED <<pc, now, file, attendance_today, rows, known_encodings,
                   known_labels, tolerance, face_encodings, face_names, durable,
                   crashes, today, known_dir, ret>>

NextTwo ==
    \/ LoadGallery \/ Startup \/ Frame \/ FrameFail
    \/ WriteOpen \/ WriteClose \/ PollKey \/ Release
    \/ StartPeer \/ PeerStartup \/ PeerFrame \/ PeerFrameFail
    \/ PeerWriteOpen \/ PeerWriteClose \/ PeerPollKey \/ PeerRelease

SpecTwo == InitTwo /\ [][NextTwo]_vars

(***************************************************************************)
(* ensure_attendance_header on its own: called twice on any file.          *)
(***************************************************************************)
InitHeader ==
    /\ pc = "header"
    /\ now = StartDay * TicksPerDay
    /\ file \in StoreFiles(StartDay)
    /\ attendance_today = <<>>
    /\ rows = <<>>
    /\ known_encodings = <<>>
    /\ known_labels = <<>>
    /\ tolerance = 0
    /\ face_encodings = <<>>
    /\ face_names = <<>>
    /\ today = DateOf(now)
    /\ durable = [valid |-> FALSE, date |-> DateOf(now), rows |-> file.rows]
    /\ crashes = 0
    /\ known_dir = NoDir
    /\ peer = NoPeer
    /\ ret = TRUE

\* one call of ensure_attendance_header (lines 78-83)
EnsureHeader ==
    /\ pc \in {"header", "header_once"}
    /\ file' = ensure_attendance_header(file)
    /\ pc' = IF pc = "header" THEN "header_once" ELSE "header_twice"
    /\ UNCHANGED <<now, attendance_today, rows, known_encodings, known_labels,
                   tolerance, face_encodings, face_names, durable, crashes, today,
                   known_dir, peer, ret>>

SpecHeader == InitHeader /\ [][EnsureHeader]_vars

(***************************************************************************)
(* load_known_faces on its own: every directory of up to MaxImages images. *)
(***************************************************************************)
\* the descriptors of the reference faces
ImageDescriptors == {<<0, 0>>, <<MaxCoord, MaxCoord>>}

\* an image with k faces detected: encoding yields a descriptor per face, or none
ImagesWith(k) ==
    {Image(l, k, encs) :
        l \in Names,
        encs \in {<<>>} \cup (IF k = 0 THEN {} ELSE [1..k -> ImageDescriptors])}

Images == UNION {ImagesWith(k) : k \in 0..MaxLocations}

Dirs == {NoDir} \cup {DirOf(imgs) : imgs \in SeqsUpTo(Images, MaxImages)}

InitLoad ==
    /\ pc = "load"
    /\ now = 0
    /\ file = NoFile
    /\ attendance_today = <<>>
    /\ rows = <<>>
    /\ known_dir \in Dirs
    /\ known_encodings = <<>>
    /\ known_labels = <<>>
    /\ tolerance = 0
    /\ face_encodings = <<>>
    /\ face_names = <<>>
    /\ today = DateOf(now)
    /\ durable = [valid |-> FALSE, date |-> 0, rows |-> <<>>]
    /\ crashes = 0
    /\ peer = NoPeer
    /\ ret = TRUE

SpecLoad == InitLoad /\ [][LoadGallery]_vars

(***************************************************************************)
(* The store at the level of the CSV text.  A file is its lines, a line    *)
(* its fields, the first line the header; dates, timestamps and names are  *)
(* strings.  csv.DictReader turns a data line into a dict keyed by the     *)
(* header's fields: a field the line lacks is None, the fields beyond the  *)
(* header are collected under the key None.  csv.DictWriter refuses a dict *)
(* with a key outside its fieldnames (ValueError) and writes None as the   *)
(* empty field.                                                            *)
(***************************************************************************)
None == "<None>"
fieldnames == <<"date", "name", "first_seen", "last_seen">>

\* date.isoformat()
IsoDates == <<"2023-01-01", "2023-01-02", "2023-01-03", "2023-01-04", "2023-01-05">>
isoformat(d) == IsoDates[d + 1]

Range(s) == {s[i] : i \in 1..Len(s)}

NoText == [exists |-> FALSE, lines |-> <<>>]
TextOf(lines) == [exists |-> TRUE, lines |-> lines]

\* the dict csv.DictReader makes of one data line
DictOf(header, line) ==
    [k \in Range(header) \cup (IF Len(line) > Len(header) THEN {None} ELSE {}) |->
        IF k = None THEN "<list>"
        ELSE LET i == CHOOSE j \in 1..Len(header) : header[j] = k
             IN  IF i <= Len(line) THEN line[i] ELSE None]

\* csv.DictReader(f): blank lines are skipped
DictReader(lines) ==
    IF lines = <<>> THEN <<>>
    ELSE LET data == SelectSeq(Tail(lines), LAMBDA l : l # <<>>)
         IN  [i \in 1..Len(data) |-> DictOf(Head(lines), data[i])]

\* dict.get(key, default)
Get(d, key, default) == IF key \in DOMAIN d THEN d[key] ELSE default

\* read_today_attendance on the text (lines 86-101)
RECURSIVE ReadDicts(_, _, _)
ReadDicts(dicts, day, att) ==
    IF dicts = <<>> THEN att
    ELSE ReadDicts(Tail(dicts), day,
             IF Get(Head(dicts), "date", None) = day
             THEN Put(att, Row(Get(Head(dicts), "date", ""),
                               Get(Head(dicts), "name", ""),
                               Get(Head(dicts), "first_seen", ""),
                               Get(Head(dicts), "last_seen", "")))
             ELSE att)

TextReadToday(f, day) ==
    IF ~f.exists THEN <<>> ELSE ReadDicts(DictReader(f.lines), day, <<>>)

\* write_attendance_snapshot's list `rows` of dicts (lines 105-120)
TextRows(f, snap, day) ==
    (IF f.exists
     THEN SelectSeq(DictReader(f.lines), LAMBDA d : Get(d, "date", None) # day)
     ELSE <<>>) \o SnapshotRows(snap)

\* csv.DictWriter: the dicts it accepts, and the line it writes for one
Writable(d) == DOMAIN d \subseteq Range(fieldnames)
LineOf(d) ==
    [i \in 1..Len(fieldnames) |->
        IF Get(d, fieldnames[i], "") = None THEN "" ELSE Get(d, fieldnames[i], "")]

\* the dicts before the first one the writer refuses
RECURSIVE WritablePrefix(_)
WritablePrefix(ds) ==
    IF ds = <<>> \/ ~Writable(Head(ds)) THEN <<>>
    ELSE <<Head(ds)>> \o WritablePrefix(Tail(ds))

\* lines 121-124: the file is reopened, the header written and the rows written
\* one after the other until one is refused
TextWriteSnapshot(f, snap, day) ==
    LET ds == TextRows(f, snap, day)
        ok == WritablePrefix(ds)
    IN  [raised |-> Len(ok) < Len(ds),
         file |-> TextOf(<<fieldnames>> \o [i \in 1..Len(ok) |-> LineOf(ok[i])])]

\* the headers of the files: the standard one, its fields in another order,
\* other names, fewer fields, one field more
TextHeaders ==
    { fieldnames,
      <<"name", "date", "first_seen", "last_seen">>,
      <<"d", "n", "f", "l">>,
      <<"date", "name">>,
      fieldnames \o <<"note">> }

\* the data lines: blank, and for the day d and the day before it a line of
\* one, two, four and five fields
TextLines(d) ==
    {<<>>} \cup
    UNION {{ <<dd>>, <<dd, "bob">>, <<dd, "bob", "T1", "T2">>,
             <<dd, "bob", "T1", "T2", "x">> } : dd \in {isoformat(d - 1), isoformat(d)}}

\* a missing file, a file of zero bytes, and a header with up to MaxTextLines lines
TextFiles(d) ==
    {NoText, TextOf(<<>>)} \cup
    {TextOf(<<h>> \o ls) : h \in TextHeaders, ls \in SeqsUpTo(TextLines(d), MaxTextLines)}

\* snapshots whose entries are all dated d
TextSnapshots(d) ==
    {x \in SeqsUpTo({Row(isoformat(d), n, "T1", "T2") : n \in Names}, Cardinality(Names)) :
        UniqueNames(x)}

InitText ==
    /\ pc = "text"
    /\ now = StartDay * TicksPerDay
    /\ file \in TextFiles(StartDay)
    /\ attendance_today \in TextSnapshots(StartDay)
    /\ rows = <<>>
    /\ known_encodings = <<>>
    /\ known_labels = <<>>
    /\ tolerance = 0
    /\ face_encodings = <<>>
    /\ face_names = <<>>
    /\ today = DateOf(now)
    /\ durable = [valid |-> FALSE, date |-> 0, rows |-> <<>>]
    /\ crashes = 0
    /\ known_dir = NoDir
    /\ peer = NoPeer
    /\ ret = TRUE

\* one call of write_attendance_snapshot (lines 104-124): it returns or raises
TextWrite ==
    /\ pc = "text"
    /\ LET w == TextWriteSnapshot(file, attendance_today, isoformat(DateOf(now))) IN
        /\ file' = w.file
        /\ pc' = IF w.raised THEN "raised" ELSE "written"
    /\ UNCHANGED <<now, attendance_today, rows, known_encodings, known_labels,
                   tolerance, face_encodings, face_names, durable, crashes, today,
                   known_dir, peer, ret>>

\* attendance_today = read_today_attendance(attendance_file), as main() seeds it
TextRead ==
    /\ pc \in {"text", "written"}
    /\ attendance_today' = TextReadToday(file, isoformat(DateOf(now)))
    /\ pc' = "text"
    /\ UNCHANGED <<now, file, rows, known_encodings, known_labels,
                   tolerance, face_encodings, face_names, durable, crashes, today,
                   known_dir, peer, ret>>

NextText == TextWrite \/ TextRead

SpecText == InitText /\ [][NextText]_vars

(***************************************************************************)
(* Properties.                                                             *)
(***************************************************************************)
\* the step of the frame loop that updates the tracker
IsFrameStep == pc = "loop" /\ pc' = "persist"
\* the step that completes a write_attendance_snapshot of the frame loop
IsWriteDone == pc = "writing" /\ pc' = "poll"
\* the step that seeds the snapshot at startup
IsStartup == pc = "start" /\ pc' # "start"

Recognized(names, n) == \E k \in 1..Len(names) : names[k] = n

\* C1: the attendance file holds at most one row for each (date, name) pair, given
\* that it started so (InitFiles), after any sequence of frame iterations, the date
\* advancing during the run included.
C1_OneRowPerDateAndName == UniqueKeys(file.rows)

\* C2: a name recognized again on the day of its snapshot entry keeps the entry's
\* first_seen, and its last_seen does not decrease, from each update to the next.
C2_FirstSeenFixedLastSeenGrows ==
    [][IsFrameStep =>
        \A i \in 1..Len(attendance_today) :
            LET e == attendance_today[i] IN
            (e.date = DateOf(now) /\ Recognized(face_names', e.name)) =>
                LET j == IndexOf(attendance_today', e.name) IN
                /\ j # 0
                /\ attendance_today'[j].first_seen = e.first_seen
                /\ attendance_today'[j].last_seen >= e.last_seen]_vars

\* a name first seen earlier today is recognized again in a later second
C2_Witness ==
    /\ pc = "persist"
    /\ durable.valid
    /\ \E i \in 1..Len(attendance_today) :
        /\ attendance_today[i].date = DateOf(now)
        /\ Recognized(face_names, attendance_today[i].name)
        /\ attendance_today[i].first_seen < attendance_today[i].last_seen
        /\ attendance_today[i].last_seen = IsoSeconds(now)

\* C3: a completed write_attendance_snapshot leaves the rows whose date is not today
\* as they were before it: the same rows in the same order.
C3_OtherDaysUnchanged ==
    [][IsWriteDone =>
        RowsNotDated(file'.rows, DateOf(now)) = RowsNotDated(durable.rows, DateOf(now))]_vars

\* C4: a second write_attendance_snapshot with the same snapshot on the same date
\* leaves the rows dated today as the first call left them.
C4_SecondWriteSameTodayRows ==
    [][(pc = "store" /\ now' = now /\ durable.valid /\ durable.date = DateOf(now)) =>
        RowsDated(file'.rows, DateOf(now)) = RowsDated(file.rows, DateOf(now))]_vars

\* after two calls on one date the file holds today-rows and rows of another day
C4_Witness ==
    /\ pc = "store"
    /\ durable.valid
    /\ durable.date = DateOf(now)
    /\ file.rows = durable.rows
    /\ Len(RowsDated(file.rows, DateOf(now))) = Cardinality(Names)
    /\ Len(RowsNotDated(file.rows, DateOf(now))) > 0
    /\ PendingRows(file, attendance_today, DateOf(now)) = file.rows

\* C5: after a stop anywhere in the run and a restart on the date of the last
\* completed write, read_today_attendance returns an entry with the same first_seen
\* for every name that write left a today-row for, and every row of an earlier date
\* that write left is still in the file.
C5_RestartKeepsPersistedRows ==
    [][(IsStartup /\ pc' = "loop" /\ crashes > 0 /\ durable.valid
            /\ durable.date = DateOf(now)) =>
        /\ \A i \in 1..Len(durable.rows) :
              durable.rows[i].date = DateOf(now) =>
                  \E j \in 1..Len(attendance_today') :
                      /\ attendance_today'[j].name = durable.rows[i].name
                      /\ attendance_today'[j].first_seen = durable.rows[i].first_seen
        /\ \A i \in 1..Len(durable.rows) :
              durable.rows[i].date < DateOf(now) =>
                  \E j \in 1..Len(file'.rows) : file'.rows[j] = durable.rows[i]]_vars

\* C6: right after every completed write of the frame loop the file's rows dated
\* today are exactly the rows of the snapshot's entries, one each.
C6_TodayRowsAreTheSnapshot ==
    [][IsWriteDone =>
        RowsDated(file'.rows, DateOf(now)) = SnapshotRows(attendance_today')]_vars

\* C7: a recognized name with no snapshot entry dated today gets an entry with
\* date = today and first_seen = last_seen = the current timestamp.
C7_NewEntryForToday ==
    [][IsFrameStep =>
        \A k \in 1..Len(face_names') :
            LET n == face_names'[k] IN
            (/\ n # Unknown
             /\ ~\E i \in 1..Len(attendance_today) :
                    /\ attendance_today[i].name = n
                    /\ attendance_today[i].date = DateOf(now)) =>
                \E j \in 1..Len(attendance_today') :
                    /\ attendance_today'[j].name = n
                    /\ attendance_today'[j].date = DateOf(now)
                    /\ attendance_today'[j].first_seen = IsoSeconds(now)
                    /\ attendance_today'[j].last_seen = IsoSeconds(now)]_vars

RowsBefore(rs, day) == SelectSeq(rs, LAMBDA r : r.date < day)

\* C8: once the date has advanced during the run, every frame iteration begun
\* after it leaves the rows dated before the current date as they were: its
\* completed write adds, removes and modifies none of them.
C8_PastRowsFrozen ==
    [][(IsWriteDone /\ today > StartDay) =>
        RowsBefore(file'.rows, DateOf(now)) = RowsBefore(durable.rows, DateOf(now))]_vars

\* C9: on a non-empty gallery the matching step returns the label of the first entry
\* at minimum distance when that distance is within the tolerance, and Unknown
\* otherwise.
C9_FirstNearestWithinTolerance ==
    \A k \in 1..Len(face_names) :
        Len(known_encodings) > 0 =>
            \E i \in 1..Len(known_encodings) :
                LET d(j) == DistSq(known_encodings[j], face_encodings[k]) IN
                /\ \A j \in 1..Len(known_encodings) : d(j) >= d(i)
                /\ \A j \in 1..(i - 1) : d(j) > d(i)
                /\ face_names[k] = IF WithinTolerance(d(i), tolerance)
                                   THEN known_labels[i]
                                   ELSE Unknown

\* two entries with different labels are equally near and within the tolerance
C9_Witness ==
    /\ Len(face_names) = 1
    /\ Len(known_encodings) = 2
    /\ known_labels[1] # known_labels[2]
    /\ DistSq(known_encodings[1], face_encodings[1]) =
           DistSq(known_encodings[2], face_encodings[1])
    /\ DistSq(known_encodings[1], face_encodings[1]) > 0
    /\ face_names[1] = known_labels[1]

\* C10: a frame whose faces all resolve to Unknown, or that shows no face, leaves
\* the snapshot as it was, and no step of the loop creates an entry keyed Unknown.
C10_UnknownLeavesSnapshot ==
    [][/\ (IsFrameStep /\ \A k \in 1..Len(face_names') : face_names'[k] = Unknown) =>
              attendance_today' = attendance_today
       /\ (~IsStartup /\ HasKey(attendance_today', Unknown)) =>
              HasKey(attendance_today, Unknown)]_vars

\* a frame with a face resolved to Unknown, the snapshot holding an entry
C10_Witness ==
    /\ pc = "persist"
    /\ Recognized(face_names, Unknown)
    /\ \A k \in 1..Len(face_names) : face_names[k] = Unknown
    /\ Len(attendance_today) > 0
    /\ durable.valid

\* an image the loader can use: detection finds a face and encoding yields a descriptor
Usable(img) == img.face_locations > 0 /\ Len(img.face_encs) > 0
\* the directory is missing or holds no usable image
EmptyGallery(dir) ==
    ~dir.exists \/ \A i \in 1..Len(dir.images) : ~Usable(dir.images[i])
IsLoadStep == pc = "load" /\ pc' = "start"

\* C11: when the directory of reference images is missing or holds no usable
\* image, loading it yields two empty sequences and main() goes on, every face
\* of every frame is named Unknown, and no step after the seeding changes the
\* snapshot
C11_EmptyGalleryKeepsSeed ==
    [][EmptyGallery(known_dir) =>
        /\ IsLoadStep =>
              known_encodings' = <<>> /\ known_labels' = <<>> /\ known_dir'.exists
        /\ IsFrameStep =>
              \A i \in 1..Len(face_names') : face_names'[i] = Unknown
        /\ pc \notin {"load", "start"} => attendance_today' = attendance_today]_vars

\* a frame with a face was processed with an empty gallery and a seeded snapshot
C11_Witness ==
    /\ EmptyGallery(known_dir)
    /\ pc = "persist"
    /\ Len(face_names) > 0
    /\ Len(attendance_today) > 0

\* the positions inside the `while True` loop of main()
LoopPositions == {"loop", "persist", "writing", "poll"}

\* C12: the loop is left only by a failed frame read or by the quit key polled
\* after a frame; a failed read leaves it at once, and from then on there is no
\* tracker update and no write; once the loop is left the device is released
C12_LoopExit ==
    /\ [][(pc \in LoopPositions /\ pc' \notin LoopPositions) =>
            /\ pc' = "stopping"
            /\ (pc = "loop" /\ ~ret') \/ (pc = "poll" /\ ret')]_vars
    /\ [][(ret /\ ~ret') => pc' = "stopping"]_vars
    /\ [][(~ret \/ pc \in {"stopping", "released"}) =>
            /\ pc' \in {"stopping", "released"}
            /\ ret' = ret
            /\ file' = file
            /\ attendance_today' = attendance_today]_vars
    /\ (~ret \/ pc = "stopping") ~> (pc = "released")

\* the device was released after a failed read that followed a completed frame
C12_Witness ==
    pc = "released" /\ ~ret /\ durable.valid /\ Len(attendance_today) > 0

IsTextWrite == pc = "text" /\ pc' \in {"written", "raised"}

\* C13: write_attendance_snapshot on an existing file, whatever its header and
\* the number of fields of its lines, returns without raising and leaves the
\* standard header, a line per retained row and a line per snapshot entry
C13_MalformedFileRewritten ==
    [][(IsTextWrite /\ file.exists) =>
        /\ pc' = "written"
        /\ Head(file'.lines) = fieldnames
        /\ Len(file'.lines) =
               1 + Len(TextRows(file, attendance_today, isoformat(DateOf(now))))]_vars

\* C14: ensure_attendance_header makes of a missing file the header row and no
\* data row, leaves an existing file as it is whatever it holds, and a second
\* call changes nothing
C14_EnsureHeaderIdempotent ==
    [][(pc \in {"header", "header_once"} /\ pc' # pc) =>
        /\ ~file.exists => (file'.exists /\ file'.header /\ file'.rows = <<>>)
        /\ file.exists => file' = file
        /\ pc = "header_once" => file' = file]_vars

\* the second call was made on a file that held data rows, or none and no header
C14_Witness ==
    /\ pc = "header_twice"
    /\ file.exists
    /\ (Len(file.rows) > 0 \/ ~file.header)

\* C15: no step of a run removes a key of the snapshot: the names it holds
\* after a step include the names it held before, each at its place
C15_SnapshotKeysOnlyGrow ==
    [][/\ Len(attendance_today') >= Len(attendance_today)
       /\ \A i \in 1..Len(attendance_today) :
              attendance_today'[i].name = attendance_today[i].name]_vars

\* after the date changed a second name was added next to an entry of the day before
C15_Witness ==
    /\ pc = "persist"
    /\ Len(attendance_today) = 2
    /\ attendance_today[1].date = StartDay
    /\ attendance_today[2].date = StartDay + 1

\* the images of a directory the loader can use, in the directory's order
UsableImages(dir) == SelectSeq(dir.images, Usable)

\* C16: load_known_faces returns two sequences of one length, holding for each
\* usable image, in order, its first descriptor and its label, and nothing for
\* the images without a face or without a descriptor, wherever they stand
C16_OnePairPerUsableImage ==
    [][IsLoadStep =>
        /\ Len(known_encodings') = Len(known_labels')
        /\ Len(known_labels') = Len(UsableImages(known_dir))
        /\ \A i \in 1..Len(UsableImages(known_dir)) :
              /\ known_encodings'[i] = UsableImages(known_dir)[i].face_encs[1]
              /\ known_labels'[i] = UsableImages(known_dir)[i].label]_vars

\* loaded: an image without a face came first, then an image of two different faces
C16_Witness ==
    /\ pc = "start"
    /\ Len(known_dir.images) = 2
    /\ known_dir.images[1].face_locations = 0
    /\ Len(known_dir.images[2].face_encs) = 2
    /\ known_dir.images[2].face_encs[1] # known_dir.images[2].face_encs[2]
    /\ Len(known_labels) = 1

\* C17: after write_attendance_snapshot was called with a snapshot dated today,
\* on any prior file, read_today_attendance on the same date gives back that
\* snapshot, names, dates and timestamps, and no row of another date; on a
\* missing file it gives the empty snapshot
C17_ReadAfterWriteIsSnapshot ==
    [][/\ IsTextWrite =>
            TextReadToday(file', isoformat(DateOf(now))) = attendance_today
       /\ \A i \in 1..Len(TextReadToday(file', isoformat(DateOf(now)))) :
            TextReadToday(file', isoformat(DateOf(now)))[i].date = isoformat(DateOf(now))
       /\ ~file.exists => TextReadToday(file, isoformat(DateOf(now))) = <<>>]_vars

\* the file holds a row of the day `day` for `name`
HasRow(f, day, name) ==
    \E i \in 1..Len(f.rows) : f.rows[i].date = day /\ f.rows[i].name = name

\* C18: nothing makes a process wait for the other: a process that is about to
\* collect the rows and reopen the file, or to write and close it, can do so
\* wherever the other process stands, and the rows it collects hold no row of
\* today but its own snapshot's
C18_NoLockBetweenWriters ==
    /\ [](/\ pc = "persist" => ENABLED WriteOpen
          /\ pc = "writing" => ENABLED WriteClose
          /\ peer.pc = "persist" => ENABLED PeerWriteOpen
          /\ peer.pc = "writing" => ENABLED PeerWriteClose)
    /\ [][(pc = "persist" /\ pc' = "writing") =>
            RowsDated(rows', DateOf(now)) =
                RowsDated(SnapshotRows(attendance_today), DateOf(now))]_vars
    /\ [][(peer.pc = "persist" /\ peer'.pc = "writing") =>
            RowsDated(peer'.rows, DateOf(now)) =
                RowsDated(SnapshotRows(peer.attendance_today), DateOf(now))]_vars

\* the first process recognized alice and completed a write of its snapshot,
\* no write is in flight, and the file holds no row of today for alice
C18_Witness ==
    /\ pc = "poll"
    /\ HasKey(attendance_today, "alice")
    /\ peer.pc \in {"poll", "loop", "stopping", "released"}
    /\ file.exists /\ file.header
    /\ ~HasRow(file, DateOf(now), "alice")

\* C19: in every state of a run each entry of the snapshot has for date the
\* calendar date of its first_seen, and a first_seen at or before its last_seen,
\* also after the date has advanced
C19_EntriesWellFormed ==
    \A i \in 1..Len(attendance_today) :
        /\ attendance_today[i].date = DateOfSeconds(attendance_today[i].first_seen)
        /\ attendance_today[i].first_seen <= attendance_today[i].last_seen

\* an entry the tracker created in the second second of the first day (no row of
\* an earlier run starts there) was updated after the date advanced
C19_Witness ==
    \E i \in 1..Len(attendance_today) :
        /\ attendance_today[i].first_seen = StartDay * SecPerDay + 1
        /\ attendance_today[i].last_seen >= (StartDay + 1) * SecPerDay
        /\ DateOf(now) > StartDay
====
